---- MODULE Spec2Model ----
(***************************************************************************)
(* Model of readnfc.py: the NFCReader polling loop (run), the tag handler  *)
(* (on_tag_detected) and the shutdown signal handler (_handle_shutdown).   *)
(* Texts are sequences of one-character strings, so that prefix tests,     *)
(* lower-casing and slicing are computed as the Python code computes them. *)
(***************************************************************************)
EXTENDS Integers, Sequences, FiniteSets, TLC

\* Largest number of NDEF records carried by one tag.
MaxRecords == 2

----------------------------------------------------------------------------
\* Strings

UpperChars == <<"A","B","C","D","E","F","G","H","I","J","K","L","M",
                "N","O","P","Q","R","S","T","U","V","W","X","Y","Z">>
LowerChars == <<"a","b","c","d","e","f","g","h","i","j","k","l","m",
                "n","o","p","q","r","s","t","u","v","w","x","y","z">>

\* str.lower() on one character
LowerChar(c) ==
    IF \E i \in 1..Len(UpperChars) : UpperChars[i] = c
    THEN LowerChars[CHOOSE i \in 1..Len(UpperChars) : UpperChars[i] = c]
    ELSE c

\* receivedtext.lower()
Lower(s) == [i \in 1..Len(s) |-> LowerChar(s[i])]

\* s.startswith(p)
StartsWith(s, p) ==
    /\ Len(s) >= Len(p)
    /\ \A i \in 1..Len(p) : s[i] = p[i]

\* the Python slice s[n:]
Slice(s, n) == IF n >= Len(s) THEN <<>> ELSE SubSeq(s, n + 1, Len(s))

----------------------------------------------------------------------------
\* Settings (usersettings / appsettings) and the prefixes of on_tag_detected

sonoshttpaddress == <<"h","t","t","p",":","/","/","g","w">>
sonosroom        == <<"H","a","l","l">>
usagestatsurl    == <<"h","t","t","p",":","/","/","s","t">>

\* value of an unbound Python name (reading it raises NameError)
Unbound == <<"<unbound>">>

PfxHttp        == <<"h","t","t","p">>
PfxSpotify     == <<"s","p","o","t","i","f","y">>
PfxTunein      == <<"t","u","n","e","i","n">>
PfxFavorite    == <<"f","a","v","o","r","i","t","e">>
PfxAmazonmusic == <<"a","m","a","z","o","n","m","u","s","i","c",":">>
\* a plausible slip: the colon is left out, so that apple shadows applemusic:
PfxAppleNoColon == <<"a","p","p","l","e">>
PfxApple       == <<"a","p","p","l","e",":">>
PfxApplemusic  == <<"a","p","p","l","e","m","u","s","i","c",":">>
PfxBbcsounds   == <<"b","b","c","s","o","u","n","d","s",":">>
PfxCommand     == <<"c","o","m","m","a","n","d">>
PfxRoom        == <<"r","o","o","m">>

InsSpotify     == <<"s","p","o","t","i","f","y","/","n","o","w","/">>
InsAmazonmusic == <<"a","m","a","z","o","n","m","u","s","i","c","/","n","o","w","/">>
InsApplemusic  == <<"a","p","p","l","e","m","u","s","i","c","/","n","o","w","/">>
InsBbcsounds   == <<"b","b","c","s","o","u","n","d","s","/","p","l","a","y","/">>
Slash          == <<"/">>
ClearQueue     == <<"/","c","l","e","a","r","q","u","e","u","e">>

\* The chain of independent `if` tests: each matching test overwrites the
\* value left by the tests before it.
ServiceType(text) ==
    LET l  == Lower(text)
        s0 == ""
        s1 == IF StartsWith(l, PfxHttp)        THEN "completeurl" ELSE s0
        s2 == IF StartsWith(l, PfxSpotify)     THEN "spotify"     ELSE s1
        s3 == IF StartsWith(l, PfxTunein)      THEN "tunein"      ELSE s2
        s4 == IF StartsWith(l, PfxFavorite)    THEN "favorite"    ELSE s3
        s5 == IF StartsWith(l, PfxAmazonmusic) THEN "amazonmusic" ELSE s4
        s6 == IF StartsWith(l, PfxApple)       THEN "applemusic"  ELSE s5
        s7 == IF StartsWith(l, PfxApplemusic)  THEN "applemusic"  ELSE s6
        s8 == IF StartsWith(l, PfxBbcsounds)   THEN "bbcsounds"   ELSE s7
        s9 == IF StartsWith(l, PfxCommand)     THEN "command"     ELSE s8
    IN  IF StartsWith(l, PfxRoom) THEN "room" ELSE s9

\* a plausible slip: the applemusic: rule strips six characters, like apple:
SonosInstructionApple6(text) ==
    LET l  == Lower(text)
        i0 == Unbound
        i1 == IF StartsWith(l, PfxHttp)        THEN text ELSE i0
        i2 == IF StartsWith(l, PfxSpotify)     THEN InsSpotify \o text ELSE i1
        i3 == IF StartsWith(l, PfxTunein)      THEN text ELSE i2
        i4 == IF StartsWith(l, PfxFavorite)    THEN text ELSE i3
        i5 == IF StartsWith(l, PfxAmazonmusic) THEN InsAmazonmusic \o Slice(text, 12) ELSE i4
        i6 == IF StartsWith(l, PfxApple)       THEN InsApplemusic \o Slice(text, 6) ELSE i5
        i7 == IF StartsWith(l, PfxApplemusic)  THEN InsApplemusic \o Slice(text, 6) ELSE i6
        i8 == IF StartsWith(l, PfxBbcsounds)   THEN InsBbcsounds \o Slice(text, 10) ELSE i7
    IN  IF StartsWith(l, PfxCommand) THEN Slice(text, 8) ELSE i8

\* lines 120-156: the value the chain of `if` tests leaves in sonosinstruction
SonosInstruction(text) ==
    LET l  == Lower(text)
        i0 == Unbound
        i1 == IF StartsWith(l, PfxHttp)        THEN text ELSE i0
        i2 == IF StartsWith(l, PfxSpotify)     THEN InsSpotify \o text ELSE i1
        i3 == IF StartsWith(l, PfxTunein)      THEN text ELSE i2
        i4 == IF StartsWith(l, PfxFavorite)    THEN text ELSE i3
        i5 == IF StartsWith(l, PfxAmazonmusic) THEN InsAmazonmusic \o Slice(text, 12) ELSE i4
        i6 == IF StartsWith(l, PfxApple)       THEN InsApplemusic \o Slice(text, 6) ELSE i5
        i7 == IF StartsWith(l, PfxApplemusic)  THEN InsApplemusic \o Slice(text, 11) ELSE i6
        i8 == IF StartsWith(l, PfxBbcsounds)   THEN InsBbcsounds \o Slice(text, 10) ELSE i7
    IN  IF StartsWith(l, PfxCommand) THEN Slice(text, 8) ELSE i8

\* a plausible slip: the payload is stripped of leading blanks
RECURSIVE LStrip(_)
LStrip(s) == IF s # <<>> /\ s[1] = " " THEN LStrip(Tail(s)) ELSE s
RoomPayloadStripped(text) == LStrip(Slice(text, 5))

\* sonosroom_local = receivedtext[5:]
RoomPayload(text) == Slice(text, 5)


\* a plausible slip: the queue is cleared for commands as well
ClearsQueueAlways(st) == TRUE

\* a plausible slip: the test is inverted
ClearsQueueInverted(st) == st = "command"

\* line 187: if servicetype != "command"
ClearsQueue(st) == st # "command"

----------------------------------------------------------------------------
\* Tag texts presented to the reader

TxtHttp         == <<"h","t","t","p",":","/","/","x","/","y">>
TxtSpotify      == <<"s","p","o","t","i","f","y",":","t">>
TxtSpotifyUp    == <<"S","p","o","t","i","f","y",":","T">>
TxtTunein       == <<"t","u","n","e","i","n","/","8">>
TxtFavorite     == <<"f","a","v","o","r","i","t","e","/","j">>
TxtAmazon       == <<"a","m","a","z","o","n","m","u","s","i","c",":","a">>
TxtApple        == <<"a","p","p","l","e",":","b">>
TxtAppleMusic   == <<"a","p","p","l","e","m","u","s","i","c",":","c">>
TxtAppleMusicUp == <<"A","p","p","l","e","M","u","s","i","c",":","C">>
TxtBbc          == <<"b","b","c","s","o","u","n","d","s",":","r">>
TxtCmdPause     == <<"c","o","m","m","a","n","d",":","p","a","u","s","e">>
TxtCmdBogus     == <<"C","O","M","M","A","N","D",":","z","a","p">>
TxtRoomKitchen  == <<"R","O","O","M",":"," ","K","i","t","c","h","e","n">>
TxtRoomNoSpace  == <<"r","o","o","m",":","K","i","t","c","h","e","n">>
TxtRooms        == <<"r","o","o","m","s">>
TxtHello        == <<"h","e","l","l","o">>
TxtAppleNoColon == <<"a","p","p","l","e">>
TxtEmpty        == <<>>

Texts == { TxtHttp, TxtSpotify, TxtSpotifyUp, TxtTunein, TxtFavorite, TxtAmazon,
           TxtApple, TxtAppleMusic, TxtAppleMusicUp, TxtBbc, TxtCmdPause,
           TxtCmdBogus, TxtRoomKitchen, TxtRoomNoSpace, TxtRooms, TxtHello,
           TxtAppleNoColon, TxtEmpty }

\* the status code the handler accepts (line 195) and the codes a request returns
HttpOk   == 200
Statuses == { HttpOk, 500 }

----------------------------------------------------------------------------
\* State

VARIABLES
    pc,               \* position of the single worker (run / on_tag_detected)
    running,          \* self.running
    reader,           \* self.reader: "None", "open" or "closed"
    sonosroom_local,  \* the global room name, Unbound until assigned
    stats,            \* usersettings.sendanonymoususagestatistics == "yes"
    hasndef,          \* tag.ndef is truthy
    nrec,             \* len(tag.ndef.records)
    idx,              \* position of the for loop over the records
    receivedtext,     \* local of on_tag_detected
    servicetype,      \* local of on_tag_detected ("unset" before line 117)
    sonosinstruction, \* local of on_tag_detected
    urltoget,         \* local of on_tag_detected
    r,                \* status code of the last response (0: none)
    reqs,             \* requests issued while handling the current record
    result,           \* how on_tag_detected ended: "none", "True", "raised", "exit"
    exitline,         \* source line of the return or raise that ended it (0: none)
    room0,            \* sonosroom_local when the handler was entered
    checked,          \* connectivity check of the current record: "no", "ok", "failed"
    roomread          \* a Room directive has been applied since process start

vars == << pc, running, reader, sonosroom_local, stats, hasndef, nrec, idx,
           receivedtext, servicetype, sonosinstruction, urltoget, r, reqs,
           result, exitline, room0, checked, roomread >>

locals == << hasndef, nrec, idx, receivedtext, servicetype, sonosinstruction,
             urltoget, r, reqs, result, exitline, room0, checked >>

Req(op, url) == [op |-> op, url |-> url]

RoomUrl(room, tail) == sonoshttpaddress \o Slash \o room \o tail

FreshLocals ==
    /\ hasndef' = FALSE
    /\ nrec' = 0
    /\ idx' = 0
    /\ receivedtext' = Unbound
    /\ servicetype' = "unset"
    /\ sonosinstruction' = Unbound
    /\ urltoget' = Unbound
    /\ r' = 0
    /\ reqs' = <<>>
    /\ result' = "none"
    /\ exitline' = 0
    /\ room0' = Unbound
    /\ checked' = "no"

\* main(): Config built from usersettings, NFCReader constructed (lines 28-32).
\* Nothing assigns sonosroom_local; Config.room is only logged (line 81).
Init ==
    /\ pc = "start"
    /\ running = TRUE
    /\ reader = "None"
    /\ sonosroom_local = Unbound
    /\ stats \in BOOLEAN
    /\ hasndef = FALSE
    /\ nrec = 0
    /\ idx = 0
    /\ receivedtext = Unbound
    /\ servicetype = "unset"
    /\ sonosinstruction = Unbound
    /\ urltoget = Unbound
    /\ r = 0
    /\ reqs = <<>>
    /\ result = "none"
    /\ exitline = 0
    /\ room0 = Unbound
    /\ checked = "no"
    /\ roomread = FALSE

\* `return True` at the given line
Return(line) ==
    /\ pc' = "h_ret"
    /\ result' = "True"
    /\ exitline' = line

\* an exception (an Exception subclass) leaves on_tag_detected at the given line
Raise(line) ==
    /\ pc' = "h_ret"
    /\ result' = "raised"
    /\ exitline' = line


----------------------------------------------------------------------------
\* NFCReader.run

\* line 78: initialize_reader() opens the reader or logs and returns False
InitializeReader ==
    /\ pc = "start"
    /\ \E ok \in BOOLEAN :
          IF ok THEN reader' = "open" /\ pc' = "apicheck"
                ELSE reader' = reader /\ pc' = "done"
    /\ UNCHANGED << running, sonosroom_local, stats, roomread, locals >>

\* line 82: check_api_connection(); a ClientError is caught inside it and the
\* result is only logged
CheckApiConnection ==
    /\ pc = "apicheck"
    /\ \E api_status \in BOOLEAN : pc' = "loop"
    /\ UNCHANGED << running, reader, sonosroom_local, stats, roomread, locals >>

\* line 91: while self.running
LoopTest ==
    /\ pc = "loop"
    /\ pc' = IF running THEN "connect" ELSE "done"
    /\ UNCHANGED << running, reader, sonosroom_local, stats, roomread, locals >>

\* line 93: reader.connect finds a tag and calls on_tag_detected(tag)
ConnectTag ==
    /\ pc = "connect"
    /\ reader = "open"
    /\ \E d \in BOOLEAN, n \in 0..MaxRecords :
          /\ hasndef' = d
          /\ nrec' = IF d THEN n ELSE 0
    /\ pc' = "h_tag"
    /\ room0' = sonosroom_local
    /\ UNCHANGED << running, reader, sonosroom_local, stats, roomread, idx,
                    receivedtext, servicetype, sonosinstruction, urltoget, r,
                    reqs, result, exitline, checked >>

\* line 93: reader.connect itself raises (caught at line 98)
ConnectError ==
    /\ pc = "connect"
    /\ pc' = "sleep1"
    /\ UNCHANGED << running, reader, sonosroom_local, stats, roomread, locals >>

\* a plausible slip: an exception raised by the callback ends run()
AfterConnectCrash(res) == IF res = "raised" THEN "done" ELSE "sleep"

\* lines 93-100: connect returns (line 97) or the exception raised by the
\* callback is caught by `except Exception` (line 98)
AfterConnect(res) == IF res = "raised" THEN "sleep1" ELSE "sleep"

ConnectReturn ==
    /\ pc = "h_ret"
    /\ pc' = AfterConnect(result)
    /\ FreshLocals
    /\ UNCHANGED << running, reader, sonosroom_local, stats, roomread >>

\* lines 97 and 100: asyncio.sleep, then back to the loop test
Sleep ==
    /\ pc \in {"sleep", "sleep1"}
    /\ pc' = "loop"
    /\ UNCHANGED << running, reader, sonosroom_local, stats, roomread, locals >>

----------------------------------------------------------------------------
\* NFCReader.on_tag_detected

\* line 105: if tag.ndef, else the warning of lines 201-209
HandlerTag ==
    /\ pc = "h_tag"
    /\ IF hasndef
       THEN pc' = "h_for" /\ idx' = 1 /\ UNCHANGED << result, exitline >>
       ELSE /\ idx' = idx
            /\ IF stats THEN pc' = "h_post_nfc" /\ UNCHANGED << result, exitline >>
                        ELSE Return(211)
    /\ UNCHANGED << running, reader, sonosroom_local, stats, roomread, hasndef,
                    nrec, receivedtext, servicetype, sonosinstruction, urltoget,
                    r, reqs, room0,
                    checked >>

\* lines 106-111: next record of the for loop, record.text read in a bare try
ForRecord ==
    /\ pc = "h_for"
    /\ IF idx > nrec
       THEN /\ Return(211)
            /\ UNCHANGED << receivedtext, servicetype, reqs, checked >>
       ELSE \/ \E t \in Texts :
                  /\ receivedtext' = t
                  /\ servicetype' = "unset"
                  /\ reqs' = <<>>
                  /\ checked' = "no"
                  /\ pc' = "h_classify"
                  /\ UNCHANGED << result, exitline >>
            \/ /\ Return(111)
               /\ servicetype' = "unset"
               /\ reqs' = <<>>
               /\ checked' = "no"
               /\ UNCHANGED receivedtext
    /\ UNCHANGED << running, reader, sonosroom_local, stats, roomread, hasndef,
                    nrec, idx, sonosinstruction, urltoget, r, room0 >>

\* a plausible slip: the assignment also sits in the command branch
RoomAfterClassifyCommand(st, text, room) ==
    IF st \in {"room", "command"} THEN RoomPayload(text) ELSE room

\* lines 158-160: only the room branch assigns sonosroom_local
RoomAfterClassify(st, text, room) ==
    IF st = "room" THEN RoomPayload(text) ELSE room

\* a plausible slip: the room branch lacks its return and falls through
PcAfterClassifyNoReturn(st, telemetry) ==
    IF st = "" THEN (IF telemetry THEN "h_post_inv" ELSE "h_ret") ELSE "h_build"

\* lines 162, 165-169, 171: where the handler goes once the text is classified
PcAfterClassify(st, telemetry) ==
    IF st = "room" THEN "h_ret"
    ELSE IF st = "" THEN (IF telemetry THEN "h_post_inv" ELSE "h_ret")
    ELSE "h_build"

\* lines 113-169: the prefix chain, the room change, the unrecognised exit
Classify ==
    /\ pc = "h_classify"
    /\ LET st   == ServiceType(receivedtext)
           ins  == SonosInstruction(receivedtext)
           next == PcAfterClassify(st, stats)
       IN  /\ servicetype' = st
           /\ sonosinstruction' = IF ins = Unbound THEN sonosinstruction ELSE ins
           /\ sonosroom_local' = RoomAfterClassify(st, receivedtext, sonosroom_local)
           /\ roomread' = (roomread \/ st = "room")
           /\ pc' = next
           /\ IF next = "h_ret"
              THEN result' = "True" /\ exitline' = (IF st = "room" THEN 162 ELSE 169)
              ELSE UNCHANGED << result, exitline >>
    /\ UNCHANGED << running, reader, stats, hasndef, nrec, idx, receivedtext,
                    urltoget, r, reqs, room0,
                    checked >>

\* line 168: the telemetry POST for an unrecognised text, outside any try
PostInvalid ==
    /\ pc = "h_post_inv"
    /\ reqs' = Append(reqs, Req("stats", usagestatsurl))
    /\ \E ok \in BOOLEAN : IF ok THEN Return(169) ELSE Raise(168)
    /\ UNCHANGED << running, reader, sonosroom_local, stats, roomread, hasndef,
                    nrec, idx, receivedtext, servicetype, sonosinstruction,
                    urltoget, r, room0,
                    checked >>

\* line 209: the telemetry POST for a tag without NDEF data, outside any try
PostNfcError ==
    /\ pc = "h_post_nfc"
    /\ reqs' = Append(reqs, Req("stats", usagestatsurl))
    /\ \E ok \in BOOLEAN : IF ok THEN Return(211) ELSE Raise(209)
    /\ UNCHANGED << running, reader, sonosroom_local, stats, roomread, hasndef,
                    nrec, idx, receivedtext, servicetype, sonosinstruction,
                    urltoget, r, room0,
                    checked >>

\* lines 174-177: reading the unbound global raises NameError
BuildUrl ==
    /\ pc = "h_build"
    /\ IF servicetype = "completeurl"
       THEN urltoget' = sonosinstruction /\ pc' = "h_check"
            /\ UNCHANGED << result, exitline >>
       ELSE IF sonosroom_local = Unbound
            THEN Raise(177) /\ UNCHANGED urltoget
            ELSE /\ urltoget' = RoomUrl(sonosroom_local, Slash \o sonosinstruction)
                 /\ pc' = "h_check"
                 /\ UNCHANGED << result, exitline >>
    /\ UNCHANGED << running, reader, sonosroom_local, stats, roomread, hasndef,
                    nrec, idx, receivedtext, servicetype, sonosinstruction, r,
                    reqs, room0,
                    checked >>

\* a plausible slip: `except: pass`, the handler goes on after a failed check
AfterCheckNoReturn(ok, st) == IF ClearsQueue(st) THEN "h_clear" ELSE "h_play"

\* lines 182-187: return True when the check raised, else the command test
AfterCheck(ok, st) ==
    IF ~ok THEN "h_ret"
    ELSE IF ClearsQueue(st) THEN "h_clear" ELSE "h_play"

\* lines 180-187: the connectivity check in a bare try, then the command test
CheckApi ==
    /\ pc = "h_check"
    /\ reqs' = Append(reqs, Req("check", sonoshttpaddress))
    /\ \E ok \in BOOLEAN :
          /\ checked' = IF ok THEN "ok" ELSE "failed"
          /\ IF ok THEN \E st \in Statuses : r' = st ELSE r' = r
          /\ LET next == AfterCheck(ok, servicetype)
             IN  /\ pc' = next
                 /\ IF next = "h_ret"
                    THEN result' = "True" /\ exitline' = 184
                    ELSE UNCHANGED << result, exitline >>
    /\ UNCHANGED << running, reader, sonosroom_local, stats, roomread, hasndef,
                    nrec, idx, receivedtext, servicetype, sonosinstruction,
                    urltoget, room0 >>

\* line 189: the clearqueue request, outside any try
ClearQueueRequest ==
    /\ pc = "h_clear"
    /\ IF sonosroom_local = Unbound
       THEN Raise(189) /\ UNCHANGED << r, reqs >>
       ELSE /\ reqs' = Append(reqs, Req("clearqueue", RoomUrl(sonosroom_local, ClearQueue)))
            /\ \/ \E st \in Statuses :
                     r' = st /\ pc' = "h_play" /\ UNCHANGED << result, exitline >>
               \/ Raise(189) /\ UNCHANGED r
    /\ UNCHANGED << running, reader, sonosroom_local, stats, roomread, hasndef,
                    nrec, idx, receivedtext, servicetype, sonosinstruction,
                    urltoget, room0,
                    checked >>

\* line 193: the play or command request, outside any try
PlayRequest ==
    /\ pc = "h_play"
    /\ reqs' = Append(reqs, Req("play", urltoget))
    /\ \/ \E st \in Statuses :
             r' = st /\ pc' = "h_status" /\ UNCHANGED << result, exitline >>
       \/ Raise(193) /\ UNCHANGED r
    /\ UNCHANGED << running, reader, sonosroom_local, stats, roomread, hasndef,
                    nrec, idx, receivedtext, servicetype, sonosinstruction,
                    urltoget, room0,
                    checked >>

\* a plausible slip: the return of line 197 is missing
StatusOkAlways(st) == TRUE

\* line 195: r.status_code != 200 ends the handler
StatusOk(st) == st = HttpOk

\* lines 195-199: the status test, then r.json()['status'], then the next record
CheckStatus ==
    /\ pc = "h_status"
    /\ IF ~StatusOk(r)
       THEN Return(197) /\ idx' = idx
       ELSE \/ pc' = "h_for" /\ idx' = idx + 1 /\ UNCHANGED << result, exitline >>
            \/ Raise(199) /\ idx' = idx
    /\ UNCHANGED << running, reader, sonosroom_local, stats, roomread, hasndef,
                    nrec, receivedtext, servicetype, sonosinstruction, urltoget,
                    r, reqs, room0,
                    checked >>

----------------------------------------------------------------------------
\* NFCReader._handle_shutdown, run between two bytecodes of the worker

\* a plausible slip: the reader is left open
CloseReaderNoop(rd) == rd

\* lines 41-42: if self.reader: self.reader.close()
CloseReader(rd) == IF rd = "None" THEN "None" ELSE "closed"

\* the worker is inside one of the two bare try blocks (lines 107-111, 180-184),
\* whose `except:` also catches the SystemExit of line 43
InBareTry == (pc = "h_for" /\ idx <= nrec) \/ pc = "h_check"

\* the request the worker is about to issue, if any
Pending ==
    IF pc = "h_check" THEN << Req("check", sonoshttpaddress) >>
    ELSE IF pc = "h_clear" /\ sonosroom_local # Unbound
         THEN << Req("clearqueue", RoomUrl(sonosroom_local, ClearQueue)) >>
    ELSE IF pc = "h_play" THEN << Req("play", urltoget) >>
    ELSE IF pc \in {"h_post_inv", "h_post_nfc"} THEN << Req("stats", usagestatsurl) >>
    ELSE <<>>

\* lines 38-43. The signal may arrive before the pending request is sent or
\* while it is in flight; sys.exit(0) raises SystemExit at that point.
HandleShutdown ==
    /\ pc \notin {"done", "exited"}
    /\ running' = FALSE
    /\ reader' = CloseReader(reader)
    /\ \E caught \in (IF InBareTry THEN BOOLEAN ELSE {FALSE}),
          sent \in (IF Pending # <<>> THEN BOOLEAN ELSE {FALSE}) :
          /\ (pc = "h_check" /\ sent) => caught
          /\ reqs' = IF sent THEN reqs \o Pending ELSE reqs
          /\ IF caught
             THEN Return(IF pc = "h_for" THEN 111 ELSE 184)
             ELSE pc' = "exited" /\ result' = "exit" /\ exitline' = exitline
          /\ checked' = IF caught /\ pc = "h_check" THEN "failed" ELSE checked
    /\ UNCHANGED << sonosroom_local, stats, roomread, hasndef, nrec, idx,
                    receivedtext, servicetype, sonosinstruction, urltoget, r,
                    room0 >>

----------------------------------------------------------------------------

Worker ==
    \/ InitializeReader \/ CheckApiConnection \/ LoopTest
    \/ ConnectReturn \/ Sleep \/ HandlerTag \/ ForRecord \/ Classify
    \/ PostInvalid \/ PostNfcError \/ BuildUrl \/ CheckApi
    \/ ClearQueueRequest \/ PlayRequest \/ CheckStatus

\* the reader (tag or error) and the signal are the environment's moves
Next == Worker \/ ConnectTag \/ ConnectError \/ HandleShutdown

Spec == Init /\ [][Next]_vars

\* The worker is one sequential thread: a step it can take, it takes. Every
\* blocking call is assumed to return or raise.
FairSpec == Spec /\ WF_vars(Worker)


----------------------------------------------------------------------------
\* Properties

AudioOps == {"check", "clearqueue", "play"}

AudioReqs == { i \in 1..Len(reqs) : reqs[i].op \in AudioOps }

Dispatching ==
    pc \in {"h_tag", "h_for", "h_classify", "h_post_inv", "h_post_nfc",
            "h_build", "h_check", "h_clear", "h_play", "h_status", "h_ret"}

Idle == pc = "connect"

Stopped == pc \in {"done", "exited"}

SpaceKitchen == <<" ","K","i","t","c","h","e","n">>
Kitchen      == <<"K","i","t","c","h","e","n">>

\* C1: every play request of a record that is not a command is preceded, in
\* the requests of that same record, by a clearqueue request addressed to the
\* current room.
C1_ClearPrecedesPlay ==
    \A i \in 1..Len(reqs) :
        (reqs[i].op = "play" /\ servicetype # "command") =>
            \E j \in 1..(i - 1) :
                reqs[j] = Req("clearqueue", RoomUrl(sonosroom_local, ClearQueue))

C1_Witness ==
    /\ pc = "h_status"
    /\ servicetype = "spotify"
    /\ Len(reqs) = 3
    /\ reqs[3].op = "play"

\* C2: a play or command directive dispatched before any Room directive finds
\* the current room defined and equal to the configured default room.
C2_DefaultRoomBeforeRoomDirective ==
    (pc = "h_build" /\ ~roomread) => sonosroom_local = sonosroom

\* C3: once the room is defined, a handler that has issued a request to the
\* audio platform (connectivity check, clearqueue, play) ends by returning
\* True, whatever the fate of that request: no exception leaves the handler.
C3_TransportFailureContained ==
    (/\ pc = "h_ret"
     /\ sonosroom_local # Unbound
     /\ reqs # <<>>
     /\ reqs[Len(reqs)].op \in AudioOps) => result = "True"

\* C4: run() stops only after a failed reader initialisation or a shutdown
\* signal, and every dispatch, whatever its outcome, leads back to polling for
\* the next tag unless a shutdown signal arrives.
C4_DispatchReturnsToIdle ==
    /\ [](pc = "done" => (~running \/ reader = "None"))
    /\ [](pc = "exited" => ~running)
    /\ (Dispatching ~> (Idle \/ ~running))

C4_Witness ==
    /\ pc = "h_ret"
    /\ result = "raised"
    /\ running

\* C5: the handling of a text that matches no prefix returns True, sends no
\* request to the audio platform and leaves the current room as it was.
C5_UnrecognizedSucceedsSilently ==
    (pc = "h_ret" /\ servicetype = "") =>
        /\ result = "True"
        /\ AudioReqs = {}
        /\ sonosroom_local = room0

\* C6: a Room record never reaches the playback steps; its handling ends at
\* line 162 returning True, with the current room replaced by the payload and
\* no request of any kind issued.
C6_RoomDirectiveOnlySetsRoom ==
    servicetype = "room" =>
        /\ pc \in {"h_ret", "exited"}
        /\ result \in {"True", "exit"}
        /\ exitline = 162
        /\ sonosroom_local = Slice(receivedtext, 5)
        /\ reqs = <<>>

C6_Witness ==
    /\ pc = "h_ret"
    /\ servicetype = "room"
    /\ room0 # Unbound
    /\ sonosroom_local # room0

\* C7 as stated: applying "ROOM: Kitchen" sets the current room to "Kitchen".
C7_RoomKitchenExact ==
    (pc = "h_ret" /\ exitline = 162 /\ receivedtext = TxtRoomKitchen) =>
        sonosroom_local = Kitchen

\* C7 as amended: applying "ROOM: Kitchen" sets the current room to the text
\* after the first five characters, " Kitchen" with its leading blank, and
\* later clearqueue requests are addressed to <gateway>/ Kitchen/clearqueue;
\* it is "room:Kitchen" that sets the current room to "Kitchen".
C7_RoomKitchenKeepsBlank ==
    /\ (pc = "h_ret" /\ exitline = 162 /\ receivedtext = TxtRoomKitchen) =>
            sonosroom_local = SpaceKitchen
    /\ (pc = "h_ret" /\ exitline = 162 /\ receivedtext = TxtRoomNoSpace) =>
            sonosroom_local = Kitchen
    /\ \A i \in 1..Len(reqs) :
            (room0 = SpaceKitchen /\ reqs[i].op = "clearqueue") =>
                reqs[i].url = sonoshttpaddress \o <<"/">> \o SpaceKitchen \o ClearQueue

C7_Witness ==
    /\ pc = "h_ret"
    /\ exitline = 162
    /\ receivedtext = TxtRoomKitchen
    /\ sonosroom_local = SpaceKitchen

\* C8: a step changes the current room only if it is the classification step
\* of a record classified as room; every other step (any other kind, an
\* unreadable record or tag, any failed request) leaves it unchanged.
C8_RoomChangedOnlyByRoomDirective ==
    [][sonosroom_local' # sonosroom_local =>
          (pc = "h_classify" /\ servicetype' = "room")]_vars

C8_Witness ==
    /\ pc = "h_ret"
    /\ servicetype = "command"
    /\ room0 # Unbound
    /\ Len(reqs) = 2

\* C9: while a Command record is handled the requests issued are, in order,
\* at most the connectivity check and the command request: never a clearqueue.
C9_CommandNeverClearsQueue ==
    servicetype = "command" =>
        /\ Len(reqs) <= 2
        /\ \A i \in 1..Len(reqs) :
              reqs[i].op = (IF i = 1 THEN "check" ELSE "play")

C9_Witness ==
    /\ servicetype = "command"
    /\ pc = "h_status"
    /\ r = HttpOk
    /\ Len(reqs) = 2

\* C10: once a shutdown signal has been delivered, running is False, the
\* reader is not open, the worker is at no polling or dispatching step, no
\* further request is issued, and the process stops.
C10_ShutdownStopsPolling ==
    /\ [](~running =>
            /\ reader # "open"
            /\ pc \in {"exited", "done", "h_ret", "sleep", "loop"})
    /\ [][~running => Len(reqs') <= Len(reqs)]_vars
    /\ (~running ~> Stopped)

C10_Witness ==
    /\ ~running
    /\ reader = "closed"
    /\ pc = "h_ret"
    /\ exitline = 184


HasOp(op) == \E i \in 1..Len(reqs) : reqs[i].op = op

\* C11: a shutdown signal never leaves a record with its clearqueue request
\* sent and its play request not sent: when the process has exited out of a
\* handler that had not yet returned or raised, a clearqueue among the
\* record's requests is followed by the play request.
C11_SignalDoesNotAbortMidCommand ==
    (pc = "exited" /\ exitline = 0 /\ HasOp("clearqueue")) => HasOp("play")

\* C12: when no signal has arrived, a handler that has issued the clearqueue
\* request of a record has also issued its play request by the time it ends,
\* whether the clearqueue request failed or not.
C12_ClearFailureDoesNotAbortPlay ==
    (pc = "h_ret" /\ running /\ HasOp("clearqueue")) => HasOp("play")

\* C13: a text that begins, in any case, with applemusic: is classified
\* applemusic with the instruction applemusic/now/ followed by text[11:], and
\* does not begin with apple:.
C13_AppleMusicPayload ==
    (servicetype # "unset" /\ StartsWith(Lower(receivedtext), PfxApplemusic)) =>
        /\ servicetype = "applemusic"
        /\ sonosinstruction =
              <<"a","p","p","l","e","m","u","s","i","c","/","n","o","w","/">>
              \o Slice(receivedtext, 11)
        /\ ~StartsWith(Lower(receivedtext), PfxApple)

C13_Witness ==
    /\ pc = "h_play"
    /\ receivedtext = TxtAppleMusicUp
    /\ servicetype = "applemusic"

\* the command names of the specification's CommandAction
CommandNames ==
    { <<"p","l","a","y">>, <<"p","a","u","s","e">>, <<"n","e","x","t">>,
      <<"p","r","e","v","i","o","u","s">>,
      <<"v","o","l","u","m","e","_","u","p">>,
      <<"v","o","l","u","m","e","_","d","o","w","n">> }

\* C14: with a current room defined, a Command record whose payload is none
\* of the command names has no request sent to the target for it, and its
\* handling ends returning True.
C14_UnknownCommandIsNoOp ==
    (/\ servicetype = "command"
     /\ room0 # Unbound
     /\ Lower(Slice(receivedtext, 8)) \notin CommandNames) =>
        /\ ~HasOp("play")
        /\ pc = "h_ret" => result = "True"

\* C15: when no signal has arrived, the handling of a tag without NDEF data
\* or of a record whose text cannot be read ends returning True, with no
\* request sent to the audio platform and the current room unchanged.
C15_UnreadableTagIsDiscarded ==
    (pc = "h_ret" /\ running /\ (~hasndef \/ exitline = 111)) =>
        /\ result = "True"
        /\ AudioReqs = {}
        /\ sonosroom_local = room0

\* C16: a handler whose last request was the telemetry POST ends returning
\* True whatever the fate of the POST, and no telemetry POST is made when the
\* statistics are disabled.
C16_TelemetryFireAndForget ==
    /\ (pc = "h_ret" /\ reqs # <<>> /\ reqs[Len(reqs)].op = "stats") =>
            result = "True"
    /\ ~stats => ~HasOp("stats")

\* the rooms the audio platform knows
AvailableRooms == { Kitchen }

\* C17: once a Room directive has been applied and at least one room is
\* available, the current room is an available room.
C17_RoomFallsBackToAvailable ==
    (roomread /\ AvailableRooms # {}) => sonosroom_local \in AvailableRooms

\* the prefix table in its fixed order
PrefixTable ==
    << [pfx |-> PfxHttp,        kind |-> "completeurl"],
       [pfx |-> PfxSpotify,     kind |-> "spotify"],
       [pfx |-> PfxTunein,      kind |-> "tunein"],
       [pfx |-> PfxFavorite,    kind |-> "favorite"],
       [pfx |-> PfxAmazonmusic, kind |-> "amazonmusic"],
       [pfx |-> PfxApple,       kind |-> "applemusic"],
       [pfx |-> PfxApplemusic,  kind |-> "applemusic"],
       [pfx |-> PfxBbcsounds,   kind |-> "bbcsounds"],
       [pfx |-> PfxCommand,     kind |-> "command"],
       [pfx |-> PfxRoom,        kind |-> "room"] >>

RowPayload(i, text) ==
    CASE i = 1  -> text
      [] i = 2  -> InsSpotify \o text
      [] i = 3  -> text
      [] i = 4  -> text
      [] i = 5  -> InsAmazonmusic \o Slice(text, 12)
      [] i = 6  -> InsApplemusic \o Slice(text, 6)
      [] i = 7  -> InsApplemusic \o Slice(text, 11)
      [] i = 8  -> InsBbcsounds \o Slice(text, 10)
      [] i = 9  -> Slice(text, 8)
      [] i = 10 -> Slice(text, 5)

MatchingRows(text) ==
    { i \in 1..Len(PrefixTable) : StartsWith(Lower(text), PrefixTable[i].pfx) }

FirstRow(text) ==
    CHOOSE i \in MatchingRows(text) : \A j \in MatchingRows(text) : i <= j

\* C18: once a text is classified, the kind and the instruction (for a room
\* record, the new room) left by the chain of `if` tests are those of the
\* first matching row of the prefix table, and the kind is empty when no row
\* matches.
C18_ChainEqualsFirstMatch ==
    servicetype # "unset" =>
        IF MatchingRows(receivedtext) = {}
        THEN servicetype = ""
        ELSE LET i == FirstRow(receivedtext)
             IN  /\ servicetype = PrefixTable[i].kind
                 /\ IF servicetype = "room"
                    THEN sonosroom_local = RowPayload(i, receivedtext)
                    ELSE sonosinstruction = RowPayload(i, receivedtext)

C18_Witness ==
    /\ pc = "h_check"
    /\ receivedtext = TxtAppleMusic
    /\ MatchingRows(receivedtext) = {7}

\* C19: a clearqueue or play request is among a record's requests only after
\* a connectivity check of that record that did not raise; when the check
\* raised, the handler has returned True at line 184 with neither request
\* issued.
C19_CheckGatesExecution ==
    /\ \A i \in 1..Len(reqs) :
          reqs[i].op \in {"clearqueue", "play"} =>
              (checked = "ok" /\ i > 1 /\ reqs[1].op = "check")
    /\ checked = "failed" =>
          /\ pc \in {"h_ret", "exited"}
          /\ result \in {"True", "exit"}
          /\ exitline = 184
          /\ ~HasOp("clearqueue")
          /\ ~HasOp("play")

C19_Witness ==
    /\ checked = "failed"
    /\ pc = "h_ret"
    /\ running
    /\ servicetype = "spotify"
    /\ result = "True"

\* C20: the for loop reaches a record only from the tag test (the first
\* record) or from the status test of the record just before it, whose play
\* or command request returned status 200; a record is classified only
\* from the loop; and once the handler has ended, no step of it follows.
C20_RecordsInOrder ==
    /\ [][pc' = "h_for" =>
            \/ pc = "h_tag" /\ idx' = 1
            \/ /\ pc = "h_status"
               /\ r = HttpOk
               /\ checked = "ok"
               /\ HasOp("play")
               /\ servicetype \notin {"room", "", "unset"}
               /\ idx' = idx + 1]_vars
    /\ [][pc' = "h_classify" => (pc = "h_for" /\ idx' = idx /\ idx <= nrec)]_vars
    /\ [][pc = "h_ret" => pc' \in {"sleep", "sleep1", "exited"}]_vars

C20_Witness ==
    /\ pc = "h_classify"
    /\ idx = 2

====
